---- MODULE Spec2Model ----
(***************************************************************************)
(* A model of fpv.py: the App control loop (App.run, App.on_event,         *)
(* App.on_exit) driving the Drone velocity controller (Drone.stop,         *)
(* Drone.update_rc, Drone.release, the twelve direction and waste          *)
(* methods and the three velocity helpers), the telemetry display          *)
(* (Info.update) and the NotebookCamera device of App('notebook').         *)
(*                                                                         *)
(* The state is the position of the single thread of control (pc), the     *)
(* fields of App and Drone that the loop reads and writes, and what the    *)
(* external collaborators (tello.Tello, pygame) have been told so far.     *)
(* Every call into tello.Tello and cv2 either returns or raises; fpv.py    *)
(* holds no try/except, so a raised exception leaves run() or __init__.    *)
(***************************************************************************)
EXTENDS Integers, Sequences, FiniteSets

VARIABLES
    pc,        \* where the thread of control stands
    shown,     \* App.init_screen has opened the display window
    link,      \* tello connection: "none", "up", "ended"
    stream,    \* tello video stream: "none", "on", "off"
    running,   \* App._running
    vel,       \* the four Drone velocity attributes (no attribute before Drone.stop)
    start,     \* vel when the run loop was entered
    before,    \* vel when the last on_event began
    keys,      \* the held keys pg.key.get_pressed() last returned
    called,    \* per axis, the Drone method the last on_event invoked
    acts,      \* land/takeoff/emergency calls the last on_event forwarded
    flushes,   \* send_rc_control calls received since the tick (or teardown) began
    lastCmd,   \* the last command send_rc_control received, <<>> if none
    tick,      \* control ticks started
    events,    \* the events pg.event.get() returned to the last on_event
    wall,      \* wall-clock time in half seconds, within the minute
    last_upd_time,  \* Info.last_upd_time, -1 while there is no Info object
    gap,       \* half seconds from the last refresh (or from Info.__init__) to
               \* the last clock reading of Info.update
    refreshed, \* the last Info.update has called _update
    device,    \* the device App was constructed with: "drone" or "notebook"
    raised     \* the external call whose exception left the program, or "none"

vars == <<pc, shown, link, stream, running, vel, start, before, keys, called,
          acts, flushes, lastCmd, tick, events, wall, last_upd_time, gap,
          refreshed, device, raised>>

----------------------------------------------------------------------------
(* Bounds of the model *)

\* ticks of a session with a freely changing keyboard
MaxTicks == 2
\* ticks of a session in which the held keys never change, from construction
MaxHeldTicks == 36
\* ticks of a session in which the held keys never change, from any axis value
MaxFromTicks == 11
\* keys held at once with a freely changing keyboard
MaxHeld == 2
\* keys held at once in a session that starts from any axis value
MaxHeldFrom == 1
\* events one pg.event.get() returns
MaxEvents == 1
\* ticks of a session whose clock readings are followed
MaxClockTicks == 3
\* keys held at once in a session of App('notebook')
MaxNotebookHeld == 4

----------------------------------------------------------------------------
(* Names *)

Axes == {"left_right_velocity", "forward_backward_velocity",
         "up_down_velocity", "yaw_velocity"}

Keys == {"K_w", "K_s", "K_a", "K_d", "K_SPACE", "K_c", "K_q", "K_e"}

\* the events on_event tells apart: QUIT, and KEYUP of these four keys
Events == {"QUIT", "K_ESCAPE", "K_0", "K_1", "K_DELETE"}

QuitEvents == {"QUIT", "K_ESCAPE"}

DeviceKeys == {"K_0", "K_1", "K_DELETE"}

Max(x, y) == IF x >= y THEN x ELSE y

Min(x, y) == IF x <= y THEN x ELSE y

Abs(x) == IF x >= 0 THEN x ELSE -x

Keyboards(n) == {K \in SUBSET Keys : Cardinality(K) <= n}

EventLists(n) == UNION {[1..m -> Events] : m \in 0..n}

NoMethod == [a \in Axes |-> "none"]

----------------------------------------------------------------------------
(* Drone: the velocity helpers *)

\* gain_velocity_plus that clamps before it adds the step
gain_velocity_plus_late_clamp(v, velocity, max_vel) ==
    [v EXCEPT ![velocity] = Max(0, Min(v[velocity], max_vel)) + 3]

\* gain_velocity_plus without its floor at 0
gain_velocity_plus_unfloored(v, velocity, max_vel) ==
    [v EXCEPT ![velocity] = Min(v[velocity] + 3, max_vel)]

gain_velocity_plus(v, velocity, max_vel) ==
    [v EXCEPT ![velocity] = Max(0, Min(v[velocity] + 3, max_vel))]

\* gain_velocity_minus without its lower clamp
gain_velocity_minus_unclamped(v, velocity, min_vel) ==
    [v EXCEPT ![velocity] = Min(v[velocity] - 3, 0)]

\* gain_velocity_minus without the ceiling at 0
gain_velocity_minus_unceiled(v, velocity, min_vel) ==
    [v EXCEPT ![velocity] = Max(min_vel, v[velocity] - 3)]

gain_velocity_minus(v, velocity, min_vel) ==
    [v EXCEPT ![velocity] = Max(min_vel, Min(v[velocity] - 3, 0))]

\* waste_velocity without the floor at 0 of its positive branch
waste_velocity_overshoot(v, velocity) ==
    [v EXCEPT ![velocity] = IF v[velocity] > 0
                              THEN v[velocity] - 10
                              ELSE Min(0, v[velocity] + 10)]

\* waste_velocity with the step of the gain helpers
waste_velocity_slow(v, velocity) ==
    [v EXCEPT ![velocity] = IF v[velocity] > 0
                              THEN Max(0, v[velocity] - 3)
                              ELSE Min(0, v[velocity] + 3)]

waste_velocity(v, velocity) ==
    [v EXCEPT ![velocity] = IF v[velocity] > 0
                              THEN Max(0, v[velocity] - 10)
                              ELSE Min(0, v[velocity] + 10)]

(* Drone: the direction and waste methods *)

\* right naming the attribute of another axis
right_wrong_axis(v) == gain_velocity_plus(v, "forward_backward_velocity", 100)

right(v) == gain_velocity_plus(v, "left_right_velocity", 100)

left(v) == gain_velocity_minus(v, "left_right_velocity", -100)

waste_left_right(v) == waste_velocity(v, "left_right_velocity")

forward(v) == gain_velocity_plus(v, "forward_backward_velocity", 100)

backward(v) == gain_velocity_minus(v, "forward_backward_velocity", -100)

waste_forward_backward(v) == waste_velocity(v, "forward_backward_velocity")

up(v) == gain_velocity_plus(v, "up_down_velocity", 100)

down(v) == gain_velocity_minus(v, "up_down_velocity", -100)

waste_up_down(v) == waste_velocity(v, "up_down_velocity")

ccw(v) == gain_velocity_plus(v, "yaw_velocity", 100)

cw(v) == gain_velocity_minus(v, "yaw_velocity", -100)

waste_yaw(v) == waste_velocity(v, "yaw_velocity")

\* stop() not resetting yaw_velocity
stop_keeps_yaw ==
    [a \in Axes |-> IF a = "yaw_velocity" /\ a \in DOMAIN vel THEN vel[a] ELSE 0]

stop == [a \in Axes |-> 0]

\* the argument tuple update_rc hands to send_rc_control
rc_command(v) == <<v["left_right_velocity"], v["forward_backward_velocity"],
                   v["up_down_velocity"], v["yaw_velocity"]>>

Invoke(m, v) ==
    CASE m = "right" -> right(v)
      [] m = "left" -> left(v)
      [] m = "waste_left_right" -> waste_left_right(v)
      [] m = "forward" -> forward(v)
      [] m = "backward" -> backward(v)
      [] m = "waste_forward_backward" -> waste_forward_backward(v)
      [] m = "up" -> up(v)
      [] m = "down" -> down(v)
      [] m = "waste_up_down" -> waste_up_down(v)
      [] m = "ccw" -> ccw(v)
      [] m = "cw" -> cw(v)
      [] m = "waste_yaw" -> waste_yaw(v)

\* the attribute each method names
MethodAxis(m) ==
    CASE m \in {"right", "left", "waste_left_right"} -> "left_right_velocity"
      [] m \in {"forward", "backward", "waste_forward_backward"} ->
             "forward_backward_velocity"
      [] m \in {"up", "down", "waste_up_down"} -> "up_down_velocity"
      [] m \in {"ccw", "cw", "waste_yaw"} -> "yaw_velocity"

GainPlusMethods == {"right", "forward", "up", "ccw"}

GainMinusMethods == {"left", "backward", "down", "cw"}

WasteMethods == {"waste_left_right", "waste_forward_backward",
                 "waste_up_down", "waste_yaw"}

----------------------------------------------------------------------------
(* App.on_event: the held-key dispatch, one if/elif/else chain per axis *)

forward_backward_method(K) ==
    IF "K_w" \in K THEN "forward"
    ELSE IF "K_s" \in K THEN "backward"
    ELSE "waste_forward_backward"

left_right_method(K) ==
    IF "K_a" \in K THEN "left"
    ELSE IF "K_d" \in K THEN "right"
    ELSE "waste_left_right"

up_down_method(K) ==
    IF "K_SPACE" \in K THEN "up"
    ELSE IF "K_c" \in K THEN "down"
    ELSE "waste_up_down"

yaw_method(K) ==
    IF "K_q" \in K THEN "cw"
    ELSE IF "K_e" \in K THEN "ccw"
    ELSE "waste_yaw"

\* the two keys on_event reads for each axis
KeyPair(a) ==
    CASE a = "forward_backward_velocity" -> {"K_w", "K_s"}
      [] a = "left_right_velocity" -> {"K_a", "K_d"}
      [] a = "up_down_velocity" -> {"K_SPACE", "K_c"}
      [] a = "yaw_velocity" -> {"K_q", "K_e"}

\* the key of each axis whose method calls _gain_velocity_plus
PositiveKey(a) ==
    CASE a = "forward_backward_velocity" -> "K_w"
      [] a = "left_right_velocity" -> "K_d"
      [] a = "up_down_velocity" -> "K_SPACE"
      [] a = "yaw_velocity" -> "K_e"

\* the waste method of each axis
WasteMethod(a) ==
    CASE a = "forward_backward_velocity" -> "waste_forward_backward"
      [] a = "left_right_velocity" -> "waste_left_right"
      [] a = "up_down_velocity" -> "waste_up_down"
      [] a = "yaw_velocity" -> "waste_yaw"

\* the method on_event invokes for each axis, and the velocities after the four calls
Dispatch(K) ==
    [a \in Axes |->
        CASE a = "forward_backward_velocity" -> forward_backward_method(K)
          [] a = "left_right_velocity" -> left_right_method(K)
          [] a = "up_down_velocity" -> up_down_method(K)
          [] a = "yaw_velocity" -> yaw_method(K)]

on_keys(v, K) ==
    Invoke(yaw_method(K),
        Invoke(up_down_method(K),
            Invoke(left_right_method(K),
                Invoke(forward_backward_method(K), v))))

(* App.on_event: the event loop *)

Quits(evs) == \E i \in 1..Len(evs) : evs[i] \in QuitEvents

\* the K_0 and K_1 branches exchanged
DeviceAction_swapped(e) ==
    CASE e = "K_0" -> "takeoff"
      [] e = "K_1" -> "land"
      [] e = "K_DELETE" -> "emergency"

DeviceAction(e) ==
    CASE e = "K_0" -> "land"
      [] e = "K_1" -> "takeoff"
      [] e = "K_DELETE" -> "emergency"

IsDeviceKey(e) == e \in DeviceKeys

Forwarded(evs) ==
    LET s == SelectSeq(evs, IsDeviceKey)
    IN  [i \in 1..Len(s) |-> DeviceAction(s[i])]

----------------------------------------------------------------------------
(* Drone.update_rc: one send_rc_control call with the current velocities *)

\* update_rc that sends only a command that differs from the last one sent
update_rc_if_changed ==
    IF rc_command(vel) = lastCmd
    THEN UNCHANGED <<lastCmd, flushes>>
    ELSE /\ lastCmd' = rc_command(vel)
         /\ flushes' = flushes + 1

update_rc ==
    /\ lastCmd' = rc_command(vel)
    /\ flushes' = flushes + 1

----------------------------------------------------------------------------
(* Construction: App.__init__ and, inside init_device, Drone.__init__ *)

\* time.localtime().tm_sec at the wall-clock time w
tm_sec(w) == (w \div 2) % 60

\* time passed between two clock readings of Info.update, in half seconds:
\* none; one second; half a second, one second or one minute
SameInstant == {0}

OneSecond == {2}

ClockDelays == {1, 2, 120}

NoAttributes == [a \in {} |-> 0]

InitApp(dev, KS) ==
    /\ pc = "init_screen"
    /\ device = dev
    /\ shown = FALSE
    /\ link = "none"
    /\ stream = "none"
    /\ running = FALSE
    /\ vel = NoAttributes
    /\ start = NoAttributes
    /\ before = NoAttributes
    /\ keys \in KS
    /\ called = NoMethod
    /\ acts = <<>>
    /\ flushes = 0
    /\ lastCmd = <<>>
    /\ tick = 0
    /\ events = <<>>
    /\ wall = 0
    /\ last_upd_time = -1
    /\ gap = 0
    /\ refreshed = FALSE
    /\ raised = "none"

InitWith(KS) == InitApp("drone", KS)

Init == InitWith({{}})

\* App.init_screen: the window is opened and "Loading..." drawn
InitScreen ==
    /\ pc = "init_screen"
    /\ shown' = TRUE
    /\ pc' = "connect"
    /\ UNCHANGED <<link, stream, running, vel, start, before, keys, called,
                   acts, flushes, lastCmd, tick, events, wall, last_upd_time,
                   gap, refreshed, device, raised>>

\* Drone.__init__: tello.connect()
Connect ==
    /\ pc = "connect"
    /\ device = "drone"
    /\ link' = "up"
    /\ pc' = "streamon"
    /\ UNCHANGED <<shown, stream, running, vel, start, before, keys, called,
                   acts, flushes, lastCmd, tick, events, wall, last_upd_time,
                   gap, refreshed, device, raised>>

\* Drone.__init__: tello.streamon()
StreamOn ==
    /\ pc = "streamon"
    /\ stream' = "on"
    /\ pc' = "init_stop"
    /\ UNCHANGED <<shown, link, running, vel, start, before, keys, called,
                   acts, flushes, lastCmd, tick, events, wall, last_upd_time,
                   gap, refreshed, device, raised>>

\* Drone.__init__: self.stop()
InitStop ==
    /\ pc = "init_stop"
    /\ vel' = stop
    /\ pc' = "init_rc"
    /\ UNCHANGED <<shown, link, stream, running, start, before, keys, called,
                   acts, flushes, lastCmd, tick, events, wall, last_upd_time,
                   gap, refreshed, device, raised>>

\* Drone.__init__: self.update_rc()
InitUpdateRc ==
    /\ pc = "init_rc"
    /\ update_rc
    /\ pc' = "init_done"
    /\ UNCHANGED <<shown, link, stream, running, vel, start, before, keys,
                   called, acts, tick, events, wall, last_upd_time, gap,
                   refreshed, device, raised>>

\* App.__init__: init_info, the clock, self._running = True; then run() is entered
AppReady ==
    /\ pc = "init_done"
    /\ running' = TRUE
    /\ start' = vel
    /\ before' = vel
    /\ last_upd_time' = tm_sec(wall)
    /\ pc' = "loop"
    /\ UNCHANGED <<shown, link, stream, vel, keys, called, acts, flushes,
                   lastCmd, tick, events, wall, gap, refreshed, device,
                   raised>>

----------------------------------------------------------------------------
(* App.run: one control tick *)

\* while self._running: self.clock.tick(self.fps)
\* (the model counts ticks up to bound; a session that stops there ends the run)
\* the loop test of run() not reading _running
Tick_ignores_flag(bound, stops) ==
    /\ pc = "loop"
    /\ stops => tick < bound
    /\ tick' = Min(tick + 1, bound)
    /\ flushes' = 0
    /\ acts' = <<>>
    /\ called' = NoMethod
    /\ before' = vel
    /\ events' = <<>>
    /\ pc' = "on_info"
    /\ UNCHANGED <<shown, link, stream, running, vel, start, keys, lastCmd,
                   wall, last_upd_time, gap, refreshed, device, raised>>

Tick(bound, stops) ==
    /\ pc = "loop"
    /\ running
    /\ stops => tick < bound
    /\ tick' = Min(tick + 1, bound)
    /\ flushes' = 0
    /\ acts' = <<>>
    /\ called' = NoMethod
    /\ before' = vel
    /\ events' = <<>>
    /\ pc' = "on_info"
    /\ UNCHANGED <<shown, link, stream, running, vel, start, keys, lastCmd,
                   wall, last_upd_time, gap, refreshed, device, raised>>

\* self.on_info() -> Info.update(): the clock is read; when its tm_sec is not
\* last_upd_time it is stored and _update() is called
OnInfo(delays) ==
    /\ pc = "on_info"
    /\ \E d \in delays :
          /\ wall' = (wall + d) % 120
          /\ gap' = (IF refreshed THEN 0 ELSE gap) + d
    /\ refreshed' = FALSE
    /\ IF tm_sec(wall') # last_upd_time
       THEN /\ last_upd_time' = tm_sec(wall')
            /\ pc' = "info_update"
       ELSE /\ last_upd_time' = last_upd_time
            /\ pc' = "on_event"
    /\ UNCHANGED <<shown, link, stream, running, vel, start, before, keys,
                   called, acts, flushes, lastCmd, tick, events, device,
                   raised>>

\* Info._update(): the velocities and the telemetry of the drone are read and
\* drawn
InfoUpdate ==
    /\ pc = "info_update"
    /\ device = "drone"
    /\ refreshed' = TRUE
    /\ pc' = "on_event"
    /\ UNCHANGED <<shown, link, stream, running, vel, start, before, keys,
                   called, acts, flushes, lastCmd, tick, events, wall,
                   last_upd_time, gap, device, raised>>

\* self.on_event(): the events of pg.event.get() are dispatched, then the held
\* keys are read and one method per axis is invoked
OnEvent(KS, ES) ==
    /\ pc = "on_event"
    /\ device = "drone"
    /\ \E evs \in ES, K \in KS :
          /\ running' = IF Quits(evs) THEN FALSE ELSE running
          /\ events' = evs
          /\ acts' = Forwarded(evs)
          /\ keys' = K
          /\ called' = Dispatch(K)
          /\ vel' = on_keys(vel, K)
    /\ pc' = "on_render"
    /\ UNCHANGED <<shown, link, stream, start, before, flushes, lastCmd, tick,
                   wall, last_upd_time, gap, refreshed, device, raised>>

\* self.on_event(): the i-th event is a device key and its land/takeoff/emergency
\* call raises; the events before it have been dispatched, the held keys are not read
OnEventRaise(ES) ==
    /\ pc = "on_event"
    /\ device = "drone"
    /\ \E evs \in ES, i \in 1..MaxEvents :
          /\ i <= Len(evs)
          /\ evs[i] \in DeviceKeys
          /\ events' = evs
          /\ running' = IF Quits(SubSeq(evs, 1, i - 1)) THEN FALSE ELSE running
          /\ acts' = Forwarded(SubSeq(evs, 1, i - 1))
          /\ raised' = DeviceAction(evs[i])
    /\ pc' = "abort_run"
    /\ UNCHANGED <<shown, link, stream, vel, start, before, keys, called,
                   flushes, lastCmd, tick, wall, last_upd_time, gap,
                   refreshed, device>>

\* self.on_render(): draw_frame (drone.get_frame, screen.blit), display.update
OnRender ==
    /\ pc = "on_render"
    /\ pc' = "update_rc"
    /\ UNCHANGED <<shown, link, stream, running, vel, start, before, keys,
                   called, acts, flushes, lastCmd, tick, events, wall,
                   last_upd_time, gap, refreshed, device, raised>>

\* self.drone.update_rc()
TickUpdateRc ==
    /\ pc = "update_rc"
    /\ device = "drone"
    /\ update_rc
    /\ pc' = "loop"
    /\ UNCHANGED <<shown, link, stream, running, vel, start, before, keys,
                   called, acts, tick, events, wall, last_upd_time, gap,
                   refreshed, device, raised>>

----------------------------------------------------------------------------
(* Teardown: App.on_exit and Drone.release *)

\* the while condition is false: self.on_exit() -> self.drone.release()
\* the loop left as soon as the flag is cleared, before render and update_rc
Exit_at_once ==
    /\ pc \in {"on_render", "update_rc", "loop"}
    /\ ~running
    /\ flushes' = 0
    /\ pc' = "streamoff"
    /\ UNCHANGED <<shown, link, stream, running, vel, start, before, keys,
                   called, acts, lastCmd, tick, events, wall, last_upd_time,
                   gap, refreshed, device, raised>>

Exit ==
    /\ pc = "loop"
    /\ ~running
    /\ flushes' = 0
    /\ pc' = "streamoff"
    /\ UNCHANGED <<shown, link, stream, running, vel, start, before, keys,
                   called, acts, lastCmd, tick, events, wall, last_upd_time,
                   gap, refreshed, device, raised>>

\* Drone.release: self.drone.streamoff()
StreamOff ==
    /\ pc = "streamoff"
    /\ stream' = "off"
    /\ pc' = "release_stop"
    /\ UNCHANGED <<shown, link, running, vel, start, before, keys, called,
                   acts, flushes, lastCmd, tick, events, wall, last_upd_time,
                   gap, refreshed, device, raised>>

\* Drone.release: self.stop()
ReleaseStop ==
    /\ pc = "release_stop"
    /\ vel' = stop
    /\ pc' = "release_rc"
    /\ UNCHANGED <<shown, link, stream, running, start, before, keys, called,
                   acts, flushes, lastCmd, tick, events, wall, last_upd_time,
                   gap, refreshed, device, raised>>

\* Drone.release: self.update_rc()
ReleaseUpdateRc ==
    /\ pc = "release_rc"
    /\ update_rc
    /\ pc' = "end"
    /\ UNCHANGED <<shown, link, stream, running, vel, start, before, keys,
                   called, acts, tick, events, wall, last_upd_time, gap,
                   refreshed, device, raised>>

\* Drone.release: self.drone.end()
End ==
    /\ pc = "end"
    /\ link' = "ended"
    /\ pc' = "pg_quit"
    /\ UNCHANGED <<shown, stream, running, vel, start, before, keys, called,
                   acts, flushes, lastCmd, tick, events, wall, last_upd_time,
                   gap, refreshed, device, raised>>

\* App.on_exit: pg.quit()
PgQuit ==
    /\ pc = "pg_quit"
    /\ shown' = FALSE
    /\ pc' = "closed"
    /\ UNCHANGED <<link, stream, running, vel, start, before, keys, called,
                   acts, flushes, lastCmd, tick, events, wall, last_upd_time,
                   gap, refreshed, device, raised>>

----------------------------------------------------------------------------
(* Exceptions: the external call about to be made raises. No frame of fpv.py *)
(* catches, so the exception leaves __init__, run() or on_exit().            *)

\* the external call made at each position, and where its exception ends up
RaisingCall ==
    [p \in {"connect", "streamon", "init_rc", "info_update", "on_render",
            "update_rc", "streamoff", "release_rc", "end"} |->
        CASE p = "connect" -> <<"connect", "abort_init">>
          [] p = "streamon" -> <<"streamon", "abort_init">>
          [] p = "init_rc" -> <<"send_rc_control", "abort_init">>
          [] p = "info_update" -> <<"telemetry", "abort_run">>
          [] p = "on_render" -> <<"get_frame", "abort_run">>
          [] p = "update_rc" -> <<"send_rc_control", "abort_run">>
          [] p = "streamoff" -> <<"streamoff", "abort_exit">>
          [] p = "release_rc" -> <<"send_rc_control", "abort_exit">>
          [] p = "end" -> <<"end", "abort_exit">>]

Raise ==
    /\ pc \in DOMAIN RaisingCall
    /\ device = "drone"
    /\ raised' = RaisingCall[pc][1]
    /\ pc' = RaisingCall[pc][2]
    /\ UNCHANGED <<shown, link, stream, running, vel, start, before, keys,
                   called, acts, flushes, lastCmd, tick, events, wall,
                   last_upd_time, gap, refreshed, device>>

----------------------------------------------------------------------------
(* NotebookCamera: the device of App('notebook'). Its direction and one-shot *)
(* methods print; it has no waste_* method, no update_rc and no velocity or  *)
(* telemetry attribute, and nothing in fpv.py catches the AttributeError.    *)

\* the methods NotebookCamera defines
NotebookMethods ==
    {"get_frame", "release", "left", "right", "forward", "backward", "up",
     "down", "cw", "ccw", "land", "takeoff", "emergency", "stop"}

\* the axes in the order of the four if/elif/else chains of on_event
ChainOrder ==
    <<"forward_backward_velocity", "left_right_velocity", "up_down_velocity",
      "yaw_velocity">>

\* the first chain of on_event whose method NotebookCamera lacks, 5 if none
FirstMissing(K) ==
    LET missing == {i \in 1..4 : Dispatch(K)[ChainOrder[i]] \notin NotebookMethods}
    IN  IF missing = {} THEN 5
        ELSE CHOOSE i \in missing : \A j \in missing : i <= j

\* init_device: NotebookCamera() opens the camera
NotebookInit ==
    /\ pc = "connect"
    /\ device = "notebook"
    /\ pc' = "init_done"
    /\ UNCHANGED <<shown, link, stream, running, vel, start, before, keys,
                   called, acts, flushes, lastCmd, tick, events, wall,
                   last_upd_time, gap, refreshed, device, raised>>

\* Info._update(): self.drone.forward_backward_velocity does not exist
InfoUpdateNotebook ==
    /\ pc = "info_update"
    /\ device = "notebook"
    /\ raised' = "AttributeError"
    /\ pc' = "abort_run"
    /\ UNCHANGED <<shown, link, stream, running, vel, start, before, keys,
                   called, acts, flushes, lastCmd, tick, events, wall,
                   last_upd_time, gap, refreshed, device>>

\* self.on_event(): the events are dispatched (land, takeoff and emergency
\* print), then the chains run in order until one names a method that
\* NotebookCamera lacks
OnEventNotebook(KS, ES) ==
    /\ pc = "on_event"
    /\ device = "notebook"
    /\ \E evs \in ES, K \in KS :
          /\ running' = IF Quits(evs) THEN FALSE ELSE running
          /\ events' = evs
          /\ acts' = Forwarded(evs)
          /\ keys' = K
          /\ called' = [a \in Axes |->
                          IF \E i \in 1..4 : i < FirstMissing(K) /\ ChainOrder[i] = a
                          THEN Dispatch(K)[a] ELSE "none"]
          /\ IF FirstMissing(K) = 5
             THEN /\ pc' = "on_render"
                  /\ raised' = raised
             ELSE /\ pc' = "abort_run"
                  /\ raised' = "AttributeError"
    /\ UNCHANGED <<shown, link, stream, vel, start, before, flushes, lastCmd,
                   tick, wall, last_upd_time, gap, refreshed, device>>

\* self.drone.update_rc(): NotebookCamera has no update_rc
UpdateRcNotebook ==
    /\ pc = "update_rc"
    /\ device = "notebook"
    /\ raised' = "AttributeError"
    /\ pc' = "abort_run"
    /\ UNCHANGED <<shown, link, stream, running, vel, start, before, keys,
                   called, acts, flushes, lastCmd, tick, events, wall,
                   last_upd_time, gap, refreshed, device>>

----------------------------------------------------------------------------
(* Specifications *)

\* a session from construction: any keys held at each tick, any events, any
\* external call may raise
Next ==
    \/ InitScreen
    \/ Connect
    \/ StreamOn
    \/ InitStop
    \/ InitUpdateRc
    \/ AppReady
    \/ Tick(MaxTicks, TRUE)
    \/ OnInfo(OneSecond)
    \/ InfoUpdate
    \/ OnEvent(Keyboards(MaxHeld), EventLists(MaxEvents))
    \/ OnEventRaise(EventLists(MaxEvents))
    \/ OnRender
    \/ TickUpdateRc
    \/ Exit
    \/ StreamOff
    \/ ReleaseStop
    \/ ReleaseUpdateRc
    \/ End
    \/ PgQuit
    \/ Raise

Spec == Init /\ [][Next]_vars

\* a session from construction in which the same keys stay held on every tick,
\* no event arrives and no external call raises
InitHeld == InitWith(Keyboards(MaxHeld))

NextHeld ==
    \/ InitScreen
    \/ Connect
    \/ StreamOn
    \/ InitStop
    \/ InitUpdateRc
    \/ AppReady
    \/ Tick(MaxHeldTicks, TRUE)
    \/ OnInfo(OneSecond)
    \/ InfoUpdate
    \/ OnEvent({keys}, {<<>>})
    \/ OnRender
    \/ TickUpdateRc

SpecHeld == InitHeld /\ [][NextHeld]_vars

\* the run loop entered with one axis at any value of its range (every such value
\* is one a session reaches), the same keys held on every tick, no event, no raise
InitFrom ==
    /\ pc = "loop"
    /\ device = "drone"
    /\ shown = TRUE
    /\ link = "up"
    /\ stream = "on"
    /\ running = TRUE
    /\ \E a \in Axes, v \in -100..100 : vel = [stop EXCEPT ![a] = v]
    /\ start = vel
    /\ before = vel
    /\ keys \in Keyboards(MaxHeldFrom)
    /\ called = NoMethod
    /\ acts = <<>>
    /\ flushes = 0
    /\ lastCmd = rc_command(vel)
    /\ tick = 0
    /\ events = <<>>
    /\ wall = 0
    /\ last_upd_time = tm_sec(wall)
    /\ gap = 0
    /\ refreshed = FALSE
    /\ raised = "none"

NextFrom ==
    \/ Tick(MaxFromTicks, TRUE)
    \/ OnInfo(OneSecond)
    \/ InfoUpdate
    \/ OnEvent({keys}, {<<>>})
    \/ OnRender
    \/ TickUpdateRc

SpecFrom == InitFrom /\ [][NextFrom]_vars

\* a session from construction that never ends: at each tick no key or any one key
\* is held, no event arrives and no external call raises (tick counts up to MaxTicks)
OneKeyKeyboards == {{}} \cup {{k} : k \in Keys}

NextFlight ==
    \/ InitScreen
    \/ Connect
    \/ StreamOn
    \/ InitStop
    \/ InitUpdateRc
    \/ AppReady
    \/ Tick(MaxTicks, FALSE)
    \/ OnInfo(SameInstant)
    \/ OnEvent(OneKeyKeyboards, {<<>>})
    \/ OnRender
    \/ TickUpdateRc

SpecFlight == Init /\ [][NextFlight]_vars

\* a session from construction in which every external call returns: one key
\* or none held at each tick, any events; each step of the program is taken
\* once the step before it has returned
NextLive ==
    \/ InitScreen
    \/ Connect
    \/ StreamOn
    \/ InitStop
    \/ InitUpdateRc
    \/ AppReady
    \/ Tick(MaxTicks, TRUE)
    \/ OnInfo(OneSecond)
    \/ InfoUpdate
    \/ OnEvent(OneKeyKeyboards, EventLists(MaxEvents))
    \/ OnRender
    \/ TickUpdateRc
    \/ Exit
    \/ StreamOff
    \/ ReleaseStop
    \/ ReleaseUpdateRc
    \/ End
    \/ PgQuit

SpecLive == Init /\ [][NextLive]_vars /\ WF_vars(NextLive)

\* MaxClockTicks ticks with no key held and no event, the clock readings of
\* Info.update half a second, one second or one minute apart
NextClock ==
    \/ InitScreen
    \/ Connect
    \/ StreamOn
    \/ InitStop
    \/ InitUpdateRc
    \/ AppReady
    \/ Tick(MaxClockTicks, TRUE)
    \/ OnInfo(ClockDelays)
    \/ InfoUpdate
    \/ OnEvent({{}}, {<<>>})
    \/ OnRender
    \/ TickUpdateRc

SpecClock == Init /\ [][NextClock]_vars

\* a session of App('notebook'): up to MaxNotebookHeld keys held, any events,
\* the first clock reading of Info.update in the second of Info.__init__ or in
\* the next one
InitNotebook == InitApp("notebook", {{}})

NextNotebook ==
    \/ InitScreen
    \/ NotebookInit
    \/ AppReady
    \/ Tick(MaxTicks, TRUE)
    \/ OnInfo(SameInstant \cup OneSecond)
    \/ InfoUpdateNotebook
    \/ OnEventNotebook(Keyboards(MaxNotebookHeld), EventLists(MaxEvents))
    \/ OnRender
    \/ UpdateRcNotebook

SpecNotebook == InitNotebook /\ [][NextNotebook]_vars

----------------------------------------------------------------------------
(* Claims *)

InRange(x) == x \in -100..100

\* C1: in every state of a Drone session each velocity attribute that exists is an
\* integer in [-100, 100], and so is each of the four components of every command
\* send_rc_control has received.
C1_AxesInRange ==
    /\ \A a \in DOMAIN vel : InRange(vel[a])
    /\ \A i \in 1..Len(lastCmd) : InRange(lastCmd[i])

\* C1 witness: a gain call on an axis at 99 was held at 100 by the clamp and the
\* tick's command carrying that 100 has been sent.
C1_Witness ==
    /\ pc = "loop"
    /\ \E a \in Axes :
          /\ before[a] = 99
          /\ called[a] \in GainPlusMethods
          /\ vel[a] = 100
    /\ lastCmd = rc_command(vel)
    /\ \E i \in 1..4 : lastCmd[i] = 100

\* on_event has run in the current tick
Dispatched == \A a \in Axes : called[a] # "none"

\* the positions of Drone.release and App.on_exit
TeardownPcs == {"streamoff", "release_stop", "release_rc", "end", "pg_quit",
                "closed", "abort_exit"}

\* the positions of one control tick after the loop head
TickPcs == {"on_info", "info_update", "on_event", "on_render", "update_rc"}

\* C2: whenever on_event has run, an axis whose two keys are both held, or both
\* not held, had its waste method invoked and no gain method.
C2_BothOrNeitherDecays ==
    Dispatched =>
        \A a \in Axes :
            (keys \cap KeyPair(a) \in {{}, KeyPair(a)}) => called[a] = WasteMethod(a)

\* C3: a tick that has completed has made exactly one send_rc_control call, with
\* the velocities as the tick left them; before its update_rc step it has made none.
C3_OneFlushPerTick ==
    /\ (pc = "loop" /\ tick >= 1) => (flushes = 1 /\ lastCmd = rc_command(vel))
    /\ pc \in TickPcs => flushes = 0

\* C3 witness: the second tick completed with its one flush although on_event left
\* every axis as it was.
C3_Witness ==
    /\ pc = "loop"
    /\ tick = 2
    /\ Dispatched
    /\ vel = before
    /\ flushes = 1
    /\ lastCmd = rc_command(vel)

\* C4: in teardown the stream is switched off and the connection ended only after
\* stop() has zeroed the axes and exactly one final command (0,0,0,0) was sent; a
\* closed session's last command is all zeros.
C4_TeardownOrder ==
    /\ (stream = "off" \/ link = "ended") =>
          (vel = stop /\ flushes = 1 /\ lastCmd = rc_command(stop))
    /\ pc = "closed" => (flushes = 1 /\ lastCmd = rc_command(stop))

\* C5: no exception leaves teardown: a failing streamoff, final send_rc_control or
\* end never stops on_exit.
C5_TeardownNeverRaises == pc # "abort_exit"

\* C6: an exception of get_frame or of the tick's send_rc_control never leaves the
\* run loop.
C6_TickFailureSurvived ==
    ~(pc = "abort_run" /\ raised \in {"get_frame", "send_rc_control"})

\* C7 as claimed: a gain_plus call leaves max(0, min(v+3, 100)), within [0, 100],
\* and 0 for every negative v; a gain_minus call leaves max(-100, min(v-3, 0)),
\* within [-100, 0], and 0 for every positive v.
C7_GainFloorsOtherSign ==
    Dispatched =>
        \A a \in Axes :
            /\ called[a] \in GainPlusMethods =>
                  /\ vel[a] = Max(0, Min(before[a] + 3, 100))
                  /\ vel[a] \in 0..100
                  /\ before[a] < 0 => vel[a] = 0
            /\ called[a] \in GainMinusMethods =>
                  /\ vel[a] = Max(-100, Min(before[a] - 3, 0))
                  /\ vel[a] \in -100..0
                  /\ before[a] > 0 => vel[a] = 0

\* C7 amended: a gain_plus call on v leaves 0 when v <= -3, v+3 when -3 < v <= 97
\* (so -2 becomes 1 and -1 becomes 2) and 100 when v > 97; a gain_minus call on v
\* leaves 0 when v >= 3, v-3 when -97 <= v < 3 (so 2 becomes -1 and 1 becomes -2)
\* and -100 when v < -97.
C7_GainByCases ==
    Dispatched =>
        \A a \in Axes :
            /\ called[a] \in GainPlusMethods =>
                  /\ vel[a] \in 0..100
                  /\ vel[a] = IF before[a] <= -3 THEN 0
                              ELSE IF before[a] <= 97 THEN before[a] + 3
                              ELSE 100
            /\ called[a] \in GainMinusMethods =>
                  /\ vel[a] \in -100..0
                  /\ vel[a] = IF before[a] >= 3 THEN 0
                              ELSE IF before[a] >= -97 THEN before[a] - 3
                              ELSE -100

\* C7 witness: a gain_plus call on an axis at -1 left it at 2.
C7_Witness ==
    \E a \in Axes :
        /\ called[a] \in GainPlusMethods
        /\ before[a] = -1
        /\ vel[a] = 2

\* C8: a waste call on v leaves v-10 when v >= 10, v+10 when v <= -10 and 0 in
\* between (so 5 becomes 0 and 0 stays 0); the result never has the sign opposite
\* to v.
C8_WasteByCases ==
    Dispatched =>
        \A a \in Axes :
            called[a] \in WasteMethods =>
                /\ vel[a] = IF before[a] >= 10 THEN before[a] - 10
                            ELSE IF before[a] <= -10 THEN before[a] + 10
                            ELSE 0
                /\ before[a] >= 0 => vel[a] >= 0
                /\ before[a] <= 0 => vel[a] <= 0

\* C8 witness: a waste call on an axis at 5 left it at 0.
C8_Witness ==
    \E a \in Axes :
        /\ called[a] \in WasteMethods
        /\ before[a] = 5
        /\ vel[a] = 0

\* no key of axis a has been held since the run loop was entered (the held keys of
\* a session of SpecFrom never change)
Idle(a) == keys \cap KeyPair(a) = {}

\* C9: with no key of an axis held, after k completed ticks the axis that started
\* at v holds the value of the same sign and magnitude max(0, |v| - 10k): it is 0
\* after at most 10 ticks, each tick before that lowers the magnitude, 0 stays 0,
\* and from 100 the values are 100, 90, ..., 0.
C9_DecayToZero ==
    pc = "loop" =>
        \A a \in Axes :
            Idle(a) =>
                /\ Abs(vel[a]) = Max(0, Abs(start[a]) - 10 * tick)
                /\ start[a] >= 0 => vel[a] >= 0
                /\ start[a] <= 0 => vel[a] <= 0
                /\ tick >= 10 => vel[a] = 0
                /\ (tick >= 1 /\ before[a] # 0) => Abs(vel[a]) < Abs(before[a])
                /\ (tick >= 1 /\ before[a] = 0) => vel[a] = 0
                /\ (start[a] = 100 /\ tick <= 10) => vel[a] = 100 - 10 * tick

\* C9 witness: an axis that started at 100 with no key held reached 0 at the tenth
\* tick, from 10, and not before.
C9_Witness ==
    /\ pc = "loop"
    /\ tick = 10
    /\ \E a \in Axes :
          /\ Idle(a)
          /\ start[a] = 100
          /\ before[a] = 10
          /\ vel[a] = 0

\* only the positive-direction key of axis a is held (the held keys of a session of
\* SpecHeld never change)
OnlyPositiveHeld(a) == keys \cap KeyPair(a) = {PositiveKey(a)}

\* C10: from construction, with only the positive key of an axis held, the axis
\* holds 3k after k completed ticks for k <= 33 and 100 after every later tick.
C10_RampTo100 ==
    pc = "loop" =>
        \A a \in Axes :
            OnlyPositiveHeld(a) =>
                vel[a] = IF tick <= 33 THEN 3 * tick ELSE 100

\* C10 witness: the axis was 99 after tick 33, 100 after tick 34 and still 100
\* after tick 35.
C10_Witness ==
    /\ pc = "loop"
    /\ tick = 35
    /\ \E a \in Axes :
          /\ OnlyPositiveHeld(a)
          /\ start[a] = 0
          /\ before[a] = 100
          /\ vel[a] = 100

\* C11: from on_event to the end of the tick, for each axis it invoked one of the three
\* methods of that axis; that method, applied to the velocities before or after
\* the tick, leaves the other three axes as they are, and the axis holds what its
\* own method makes of its value before the tick.
C11_OneMethodOwnAxis ==
    (Dispatched /\ pc \in {"on_render", "update_rc", "loop"}) =>
        \A a \in Axes :
            /\ called[a] \in GainPlusMethods \cup GainMinusMethods \cup WasteMethods
            /\ MethodAxis(called[a]) = a
            /\ \A b \in Axes \ {a} :
                  /\ Invoke(called[a], before)[b] = before[b]
                  /\ Invoke(called[a], vel)[b] = vel[b]
            /\ vel[a] = Invoke(called[a], before)[a]

\* C11 witness: in one tick right() raised left_right to 6, backward() floored
\* forward_backward from 3 to 0 and the other two axes decayed at 0.
C11_Witness ==
    /\ Dispatched
    /\ pc = "on_render"
    /\ called["left_right_velocity"] = "right"
    /\ called["forward_backward_velocity"] = "backward"
    /\ before["left_right_velocity"] = 3
    /\ before["forward_backward_velocity"] = 3
    /\ vel = [stop EXCEPT !["left_right_velocity"] = 6]

\* the part of the program each position belongs to: 0 App.__init__,
\* 1 the loop of App.run, 2 App.on_exit, 3 after on_exit
PhaseOf(p) ==
    CASE p \in {"init_screen", "connect", "streamon", "init_stop", "init_rc",
                "init_done"} -> 0
      [] p \in TickPcs \cup {"loop"} -> 1
      [] p \in {"streamoff", "release_stop", "release_rc", "end", "pg_quit"} -> 2
      [] p = "closed" -> 3

\* C12: when every external call returns, each step stays in its part of the
\* program or enters the next one (construction, loop, on_exit, closed), _running
\* is set to True by the last step of construction only, the loop test with the
\* flag cleared goes to on_exit, no tick starts once on_exit has begun, and a
\* loop whose flag was cleared leads to closed.
C12_LinearLifecycle ==
    /\ [][/\ PhaseOf(pc') \in {PhaseOf(pc), PhaseOf(pc) + 1}
          /\ (running' /\ ~running) => (pc = "init_done" /\ pc' = "loop")
          /\ (pc = "loop" /\ ~running) => pc' = "streamoff"
          /\ PhaseOf(pc) >= 2 => (pc' # "on_info" /\ tick' = tick)]_vars
    /\ (PhaseOf(pc) = 1 /\ ~running) ~> (pc = "closed")

\* C12 witness: a session that ran a tick, was told to quit and is closed.
C12_Witness ==
    /\ pc = "closed"
    /\ ~running
    /\ tick > 0
    /\ link = "ended"
    /\ ~shown

\* C13: when connect() raises, construction is left with no tick started, no
\* velocity command and no one-shot action sent, and no window on the screen.
C13_ConnectFailureBeforeWindow ==
    raised = "connect" =>
        /\ pc = "abort_init"
        /\ ~running
        /\ tick = 0
        /\ flushes = 0
        /\ lastCmd = <<>>
        /\ acts = <<>>
        /\ ~shown

\* C14: right after stop() all four velocities are 0 whatever they were, the
\* update_rc that follows sends (0, 0, 0, 0), and the first command sent after
\* connect is (0, 0, 0, 0).
C14_StopZeroesAll ==
    /\ pc \in {"init_rc", "release_rc"} =>
          (DOMAIN vel = Axes /\ \A a \in Axes : vel[a] = 0)
    /\ pc \in {"init_done", "end", "pg_quit", "closed"} =>
          lastCmd = <<0, 0, 0, 0>>
    /\ pc = "init_done" => flushes = 1
    /\ (tick = 0 /\ lastCmd # <<>>) => lastCmd = <<0, 0, 0, 0>>

\* C14 witness: release() has stopped a drone whose last tick sent nonzero
\* velocities on two axes.
C14_Witness ==
    /\ pc = "release_rc"
    /\ \A a \in Axes : vel[a] = 0
    /\ lastCmd[1] # 0
    /\ lastCmd[4] # 0

\* a one-shot action the last on_event forwarded
Sent(act) == \E i \in DOMAIN acts : acts[i] = act

\* C15: in a tick that forwards takeoff the four velocities were 0 when the tick
\* began, and in a tick that forwards emergency the four velocities are 0 after
\* on_event, so the command that tick's update_rc sends is (0, 0, 0, 0).
C15_StopAroundActions ==
    (Dispatched /\ pc \in {"on_render", "update_rc", "loop"}) =>
        /\ Sent("takeoff") => \A a \in Axes : before[a] = 0
        /\ Sent("emergency") =>
              /\ \A a \in Axes : vel[a] = 0
              /\ pc = "loop" => lastCmd = <<0, 0, 0, 0>>

\* how often x occurs in the sequence s
Count(s, x) == Cardinality({i \in DOMAIN s : s[i] = x})

\* C16: from on_event to the end of the tick, takeoff has been forwarded once per
\* K_1 release the tick drained, land once per K_0 release and emergency once per
\* K_DELETE release, nothing else has been forwarded, and the velocities are what
\* the held-key dispatch alone makes of the velocities before the tick.
C16_OneShotPerRelease ==
    (Dispatched /\ pc \in {"on_render", "update_rc", "loop"}) =>
        /\ Count(acts, "takeoff") = Count(events, "K_1")
        /\ Count(acts, "land") = Count(events, "K_0")
        /\ Count(acts, "emergency") = Count(events, "K_DELETE")
        /\ Len(acts) = Count(events, "K_1") + Count(events, "K_0")
                         + Count(events, "K_DELETE")
        /\ vel = on_keys(before, keys)

\* C16 witness: a tick drained a K_1 release while K_d was held at velocity 3;
\* takeoff was forwarded and left_right went on to 6.
C16_Witness ==
    /\ pc = "update_rc"
    /\ events = <<"K_1">>
    /\ acts = <<"takeoff">>
    /\ keys = {"K_d"}
    /\ before["left_right_velocity"] = 3
    /\ vel["left_right_velocity"] = 6

\* C17: when every external call returns, the flag is cleared by on_event only
\* and by a QUIT or K_ESCAPE event only; the tick that drained it has dispatched
\* the held keys, goes on to render and then to update_rc (one command, carrying
\* the velocities of that tick), and the loop test that follows starts no tick
\* and enters on_exit, which is entered from nowhere else.
C17_QuitOnlySetsFlag ==
    /\ [](pc \in {"on_info", "on_event"} => running)
    /\ []((PhaseOf(pc) = 1 /\ ~running) =>
            /\ Quits(events)
            /\ Dispatched
            /\ vel = on_keys(before, keys))
    /\ []((pc \in {"loop", "streamoff"} /\ ~running) =>
            lastCmd = rc_command(vel))
    /\ []((pc = "loop" /\ ~running) => flushes = 1)
    /\ [][/\ (~running /\ pc = "on_render") => pc' = "update_rc"
          /\ (~running /\ pc = "update_rc") => pc' = "loop"
          /\ (~running /\ pc = "loop") => pc' = "streamoff"
          /\ pc' = "streamoff" => (pc = "loop" /\ ~running)]_vars

\* C17 witness: on_exit begins after a first tick that drained K_ESCAPE with K_w
\* held; the command of that tick carried forward_backward 3.
C17_Witness ==
    /\ pc = "streamoff"
    /\ tick = 1
    /\ events = <<"K_ESCAPE">>
    /\ keys = {"K_w"}
    /\ lastCmd = <<0, 3, 0, 0>>

\* C18: across one tick an axis that was strictly positive is not negative
\* afterwards and an axis that was strictly negative is not positive afterwards.
C18_NoSignChange ==
    Dispatched =>
        \A a \in Axes :
            /\ before[a] > 0 => vel[a] >= 0
            /\ before[a] < 0 => vel[a] <= 0

\* C18 amended: across one tick a waste call never changes the sign of its axis;
\* a gain call in the opposite direction leaves exactly 0 when the axis stood at
\* 3 or more from 0, and that 0 is what update_rc sends; the sign changes in one
\* tick only from 1 or 2 (to -2 or -1) under gain_minus and from -1 or -2 (to 2
\* or 1) under gain_plus.
C18_SignChangeOnlyBelowStep ==
    Dispatched =>
        /\ \A a \in Axes :
            /\ called[a] \in WasteMethods =>
                  /\ before[a] > 0 => vel[a] >= 0
                  /\ before[a] < 0 => vel[a] <= 0
            /\ (called[a] \in GainMinusMethods /\ before[a] >= 3) => vel[a] = 0
            /\ (called[a] \in GainPlusMethods /\ before[a] <= -3) => vel[a] = 0
            /\ (before[a] > 0 /\ vel[a] < 0) =>
                  /\ called[a] \in GainMinusMethods
                  /\ before[a] \in {1, 2}
                  /\ vel[a] = before[a] - 3
            /\ (before[a] < 0 /\ vel[a] > 0) =>
                  /\ called[a] \in GainPlusMethods
                  /\ before[a] \in {-1, -2}
                  /\ vel[a] = before[a] + 3
        /\ pc = "loop" => lastCmd = rc_command(vel)

\* C18 witness: a tick with the negative key held took an axis from 2 to -1 and
\* sent it, the command before having carried 2.
C18_Witness ==
    /\ pc = "loop"
    /\ called["yaw_velocity"] = "cw"
    /\ before["yaw_velocity"] = 2
    /\ vel["yaw_velocity"] = -1
    /\ lastCmd[4] = -1

\* C19: once on_info of a tick has returned, the telemetry display was refreshed
\* in it exactly when one second (two half seconds) or more had passed since the
\* last refresh.
C19_RefreshIffSecondElapsed ==
    pc = "on_event" => (refreshed <=> gap >= 2)

\* C20: a session of App('notebook') raises no AttributeError: every method and
\* attribute the loop and the telemetry display use exists on NotebookCamera.
C20_NotebookTicksRun ==
    device = "notebook" => raised # "AttributeError"

====
